---- MODULE Spec2Model ----
(***************************************************************************)
(* A model of python/pyarrow/util.py: the strided-span calculator          *)
(* (get_contiguous_span, product), path coercion (_is_path_like,           *)
(* _stringify_path), the deprecation wrapper (_deprecate_api) and the      *)
(* free-port finder (find_free_port).                                      *)
(***************************************************************************)
EXTENDS Integers, Sequences, FiniteSets

VARIABLES
    shape,        \* get_contiguous_span: the shape argument
    strides,      \* get_contiguous_span: the strides argument (<<>> when None)
    stridesGiven, \* FALSE when the strides argument is None
    itemsize,     \* get_contiguous_span: the itemsize argument
    spanResult,   \* outcome of the call: none, return (start, end) or ValueError
    pathValue,    \* the value handed to _is_path_like and _stringify_path
    isLike,       \* outcome of _is_path_like(pathValue): "none", "True" or "False"
    strResult,    \* outcome of _stringify_path(pathValue)
    wrappers,     \* the wrappers _deprecate_api has returned so far
    warnFilter,   \* the interpreter's warnings filter action for FutureWarning
    registry,     \* messages already shown from the wrapper's warn statement
    events,       \* calls of warnings.warn (with their effect) and of targets, in order
    invoked,      \* the wrapper invocations started: wrapper and arguments
    outcomes,     \* what each finished wrapper invocation returned or raised
    depPc,        \* position inside the running wrapper: "idle" or "warned"
    sockets,      \* every socket find_free_port created, with its state
    portOutcomes, \* what each finished find_free_port call returned or raised
    portPc        \* position inside the running find_free_port call

spanVars == <<shape, strides, stridesGiven, itemsize, spanResult>>

pathVars == <<pathValue, isLike, strResult>>

depVars == <<wrappers, warnFilter, registry, events, invoked, outcomes, depPc>>

portVars == <<sockets, portOutcomes, portPc>>

vars == <<spanVars, pathVars, depVars, portVars>>

----------------------------------------------------------------------------
(* Bounds of the explored inputs. *)

MaxRank == 2

MaxDim == 3

MaxStride == 4

MaxItemsize == 4

MaxWrappers == 2

MaxWrapperCalls == 2

MaxPort == 2

MaxPortCalls == 3

Ranks == 0..MaxRank

Dims == 0..MaxDim

StrideVals == (0 - MaxStride)..MaxStride

ItemSizes == 1..MaxItemsize

Shapes == UNION {[1..n -> Dims] : n \in Ranks}

StridesFor(shp) == [1..Len(shp) -> StrideVals]

----------------------------------------------------------------------------
(* product(seq): functools.reduce(lambda a, b: a*b, seq, 1) *)

RECURSIVE reduceMul(_, _, _)
reduceMul(seq, i, acc) ==
    IF i > Len(seq) THEN acc ELSE reduceMul(seq, i + 1, acc * seq[i])

(* A product folded from 0 instead of the multiplicative identity. *)
productFromZero(seq) == reduceMul(seq, 1, 0)

product(seq) == reduceMul(seq, 1, 1)

(* The loop with a negative stride extending the upper bound. *)
RECURSIVE SpanLoopNegUp(_, _, _, _, _)
SpanLoopNegUp(shp, strd, i, start, end) ==
    IF i > Len(shp) THEN [start |-> start, end |-> end]
    ELSE LET dim == shp[i]
             stride == strd[i]
         IN  IF dim = 0 THEN [start |-> 0, end |-> 0]
             ELSE IF stride > 0
                  THEN SpanLoopNegUp(shp, strd, i + 1, start, end + stride * (dim - 1))
             ELSE IF stride < 0
                  THEN SpanLoopNegUp(shp, strd, i + 1, start, end - stride * (dim - 1))
             ELSE SpanLoopNegUp(shp, strd, i + 1, start, end)

(* The loop without the short-circuit on a zero dimension. *)
RECURSIVE SpanLoopNoBreak(_, _, _, _, _)
SpanLoopNoBreak(shp, strd, i, start, end) ==
    IF i > Len(shp) THEN [start |-> start, end |-> end]
    ELSE LET dim == shp[i]
             stride == strd[i]
         IN  IF stride > 0
                  THEN SpanLoopNoBreak(shp, strd, i + 1, start, end + stride * (dim - 1))
             ELSE IF stride < 0
                  THEN SpanLoopNoBreak(shp, strd, i + 1, start + stride * (dim - 1), end)
             ELSE SpanLoopNoBreak(shp, strd, i + 1, start, end)

(* The loop without the branch for negative strides. *)
RECURSIVE SpanLoopNoNegative(_, _, _, _, _)
SpanLoopNoNegative(shp, strd, i, start, end) ==
    IF i > Len(shp) THEN [start |-> start, end |-> end]
    ELSE LET dim == shp[i]
             stride == strd[i]
         IN  IF dim = 0 THEN [start |-> 0, end |-> 0]
             ELSE IF stride > 0
                  THEN SpanLoopNoNegative(shp, strd, i + 1, start, end + stride * (dim - 1))
             ELSE SpanLoopNoNegative(shp, strd, i + 1, start, end)

(* The for loop of get_contiguous_span, from dimension i on, with the      *)
(* break on a zero dimension.                                              *)
RECURSIVE SpanLoop(_, _, _, _, _)
SpanLoop(shp, strd, i, start, end) ==
    IF i > Len(shp) THEN [start |-> start, end |-> end]
    ELSE LET dim == shp[i]
             stride == strd[i]
         IN  IF dim = 0 THEN [start |-> 0, end |-> 0]
             ELSE IF stride > 0
                  THEN SpanLoop(shp, strd, i + 1, start, end + stride * (dim - 1))
             ELSE IF stride < 0
                  THEN SpanLoop(shp, strd, i + 1, start + stride * (dim - 1), end)
             ELSE SpanLoop(shp, strd, i + 1, start, end)

(* Python truthiness of the strides argument: None and () are falsy. *)
StridesTruthy(given, strd) == given /\ Len(strd) > 0

SpanReturn(start, end) == [kind |-> "return", start |-> start, end |-> end]

SpanValueError == [kind |-> "ValueError", start |-> 0, end |-> 0]

SpanNone == [kind |-> "none", start |-> 0, end |-> 0]

(* The call without the width check after the loop. *)
get_contiguous_span_unchecked(shp, given, strd, isz) ==
    IF ~StridesTruthy(given, strd)
    THEN SpanReturn(0, isz * product(shp))
    ELSE LET se == SpanLoop(shp, strd, 1, 0, isz)
         IN  SpanReturn(se.start, se.end)

get_contiguous_span(shp, given, strd, isz) ==
    IF ~StridesTruthy(given, strd)
    THEN SpanReturn(0, isz * product(shp))
    ELSE LET se == SpanLoop(shp, strd, 1, 0, isz)
         IN  IF se.end - se.start # isz * product(shp)
             THEN SpanValueError
             ELSE SpanReturn(se.start, se.end)

----------------------------------------------------------------------------
(* Path coercion.  A value is described by what the code asks of it:       *)
(* whether it is a str, whether it is a pathlib.Path, what looking up and  *)
(* calling __fspath__ does, its own text (the str itself, or str(path))    *)
(* and the text __fspath__() renders.                                      *)

Texts == {"a", "b", "c"}

(* Looking up and calling __fspath__: the attribute is missing, the call   *)
(* returns the rendered text, or the call itself raises AttributeError.    *)
FspathKinds == {"missing", "returns", "raisesAttributeError"}

PathValues ==
    {v \in [isStr : BOOLEAN, isPath : BOOLEAN, fspath : FspathKinds,
            text : Texts, rendered : Texts] : ~(v.isStr /\ v.isPath)}

HasFspath(v) == v.fspath # "missing"

(* hasattr(path, '__fspath__') looked up but never called. *)
_is_path_like(v) == v.isStr \/ HasFspath(v) \/ v.isPath

PyBool(b) == IF b THEN "True" ELSE "False"

(* via names the return statement taken: the value itself, the result of  *)
(* __fspath__(), or str(path).                                             *)
StrReturn(value, via) == [kind |-> "return", value |-> value, via |-> via]

StrRaise(exc) == [kind |-> exc, value |-> "", via |-> "none"]

StrNone == [kind |-> "none", value |-> "", via |-> "none"]

(* The except branch of _stringify_path and the raise after it. *)
FallbackOrTypeError(v) ==
    IF v.isPath THEN StrReturn(v.text, "str") ELSE StrRaise("TypeError")

_stringify_path(v) ==
    IF v.isStr THEN StrReturn(v.text, "self")
    ELSE CASE v.fspath = "returns" -> StrReturn(v.rendered, "fspath")
           [] v.fspath \in {"missing", "raisesAttributeError"} ->
                FallbackOrTypeError(v)

PathInit ==
    /\ pathValue \in PathValues
    /\ isLike = "none"
    /\ strResult = StrNone

PathIdle ==
    /\ pathValue = [isStr |-> TRUE, isPath |-> FALSE, fspath |-> "missing",
                    text |-> "a", rendered |-> "a"]
    /\ isLike = "none"
    /\ strResult = StrNone

CallIsPathLike ==
    /\ isLike = "none"
    /\ isLike' = PyBool(_is_path_like(pathValue))
    /\ UNCHANGED <<pathValue, strResult>>

CallStringifyPath ==
    /\ strResult.kind = "none"
    /\ strResult' = _stringify_path(pathValue)
    /\ UNCHANGED <<pathValue, isLike>>

----------------------------------------------------------------------------
(* The deprecation wrapper.  _deprecate_api formats the message and        *)
(* returns a closure over the message and the target; the closure warns    *)
(* and then calls the target with the arguments it was given.              *)

OldNames == {"old_f", "old_g"}

NewNames == {"new_f"}

Versions == {"1.0"}

(* Targets the wrapper is built around: one returning a value computed     *)
(* from its arguments, one raising.                                        *)
Apis == {"count", "fail"}

ArgSets ==
    {[pos |-> <<>>, kw |-> {}],
     [pos |-> <<1>>, kw |-> {}],
     [pos |-> <<1, 2>>, kw |-> {"k"}]}

TargetResult(api, args) ==
    IF api = "count"
    THEN [kind |-> "return", value |-> Len(args.pos) + Cardinality(args.kw)]
    ELSE [kind |-> "raise", value |-> 0]

(* 'pyarrow.{} is deprecated as of {}, please use pyarrow.{} instead' *)
FormatMsg(old, ver, new) == <<"pyarrow.", old, " is deprecated as of ", ver,
                              ", please use pyarrow.", new, " instead">>

(* What warnings.warn(msg, FutureWarning) does is decided by the           *)
(* interpreter's warnings filter.  "default" shows a warning once for each *)
(* message, category and line (every wrapper warns from the same line, so  *)
(* once for each message), "always" shows every one, "ignore" shows none,  *)
(* and "error" raises the FutureWarning instead.                           *)
WarnFilters == {"default", "always", "ignore", "error"}

WarnOutcome(filter, reg, msg) ==
    CASE filter = "error" -> "raised"
      [] filter = "ignore" -> "suppressed"
      [] filter = "always" -> "shown"
      [] filter = "default" -> IF msg \in reg THEN "suppressed" ELSE "shown"

RegistryAfter(filter, reg, msg) ==
    IF filter = "default" THEN reg \cup {msg} ELSE reg

NoArgs == [pos |-> <<>>, kw |-> {}]

(* inv numbers the wrapper invocation an event belongs to (0: none). *)
WarnEvent(msg, effect, inv) ==
    [type |-> "warn", msg |-> msg, category |-> "FutureWarning",
     effect |-> effect, api |-> "", args |-> NoArgs, inv |-> inv]

CallEvent(api, args, inv) ==
    [type |-> "call", msg |-> <<>>, category |-> "", effect |-> "",
     api |-> api, args |-> args, inv |-> inv]

WarningRaised == [kind |-> "raise FutureWarning", value |-> 0]

DepInit ==
    /\ wrappers = {}
    /\ warnFilter \in WarnFilters
    /\ registry = {}
    /\ events = <<>>
    /\ invoked = <<>>
    /\ outcomes = <<>>
    /\ depPc = "idle"

DepIdle ==
    /\ wrappers = {}
    /\ warnFilter = "default"
    /\ registry = {}
    /\ events = <<>>
    /\ invoked = <<>>
    /\ outcomes = <<>>
    /\ depPc = "idle"

(* A wrapper that already warns when it is created. *)
DeprecateApiWarnsEarly ==
    \E old \in OldNames, new \in NewNames, api \in Apis, ver \in Versions :
        /\ depPc = "idle"
        /\ Cardinality(wrappers) < MaxWrappers
        /\ wrappers' = wrappers \cup {[msg |-> FormatMsg(old, ver, new), api |-> api]}
        /\ events' = Append(events, WarnEvent(FormatMsg(old, ver, new), "shown", 0))
        /\ UNCHANGED <<warnFilter, registry, invoked, outcomes, depPc>>

(* _deprecate_api(old_name, new_name, api, next_version) *)
DeprecateApi ==
    \E old \in OldNames, new \in NewNames, api \in Apis, ver \in Versions :
        /\ depPc = "idle"
        /\ Cardinality(wrappers) < MaxWrappers
        /\ wrappers' = wrappers \cup {[msg |-> FormatMsg(old, ver, new), api |-> api]}
        /\ UNCHANGED <<warnFilter, registry, events, invoked, outcomes, depPc>>

(* The wrapper's first statement, warnings.warn(msg, FutureWarning),       *)
(* returning: the warning was shown or suppressed.                         *)
WrapperWarn ==
    \E w \in wrappers, a \in ArgSets :
        /\ depPc = "idle"
        /\ Len(invoked) < MaxWrapperCalls
        /\ WarnOutcome(warnFilter, registry, w.msg) # "raised"
        /\ invoked' = Append(invoked, [w |-> w, args |-> a])
        /\ events' = Append(events,
                            WarnEvent(w.msg, WarnOutcome(warnFilter, registry, w.msg),
                                      Len(invoked) + 1))
        /\ registry' = RegistryAfter(warnFilter, registry, w.msg)
        /\ depPc' = "warned"
        /\ UNCHANGED <<wrappers, warnFilter, outcomes>>

(* The wrapper's first statement raising: the FutureWarning leaves the     *)
(* wrapper and the second statement is never reached.                      *)
WrapperWarnRaises ==
    \E w \in wrappers, a \in ArgSets :
        /\ depPc = "idle"
        /\ Len(invoked) < MaxWrapperCalls
        /\ WarnOutcome(warnFilter, registry, w.msg) = "raised"
        /\ invoked' = Append(invoked, [w |-> w, args |-> a])
        /\ events' = Append(events, WarnEvent(w.msg, "raised", Len(invoked) + 1))
        /\ outcomes' = Append(outcomes, WarningRaised)
        /\ UNCHANGED <<wrappers, warnFilter, registry, depPc>>

(* The wrapper's second statement: the target is called with the same     *)
(* positional and keyword arguments and its outcome is returned.           *)
WrapperCall ==
    /\ depPc = "warned"
    /\ LET cur == invoked[Len(invoked)]
       IN  /\ events' = Append(events, CallEvent(cur.w.api, cur.args, Len(invoked)))
           /\ outcomes' = Append(outcomes, TargetResult(cur.w.api, cur.args))
    /\ depPc' = "idle"
    /\ UNCHANGED <<wrappers, warnFilter, registry, invoked>>

----------------------------------------------------------------------------
(* find_free_port: a socket is created, then bound, configured and asked   *)
(* for its name inside `with contextlib.closing(sock)`, which closes it on *)
(* every way out of the block.  Each of the four socket calls can raise    *)
(* OSError.                                                                *)

Ports == 1..MaxPort

NewSocket == [state |-> "open", port |-> 0, reuse |-> FALSE]

(* contextlib.closing.__exit__: sock.close() *)
CloseSocket(socks, i) == [socks EXCEPT ![i].state = "closed"]

PortReturn(port, sock) ==
    [kind |-> "return", at |-> "", port |-> port, sock |-> sock]

PortRaise(at, sock) ==
    [kind |-> "OSError", at |-> at, port |-> 0, sock |-> sock]

PortInit ==
    /\ sockets = <<>>
    /\ portOutcomes = <<>>
    /\ portPc = "idle"

CallsLeft == Len(portOutcomes) < MaxPortCalls

(* socket.socket(AF_INET, SOCK_STREAM) *)
SocketCreate ==
    /\ portPc = "idle"
    /\ CallsLeft
    /\ sockets' = Append(sockets, NewSocket)
    /\ portPc' = "created"
    /\ UNCHANGED portOutcomes

SocketCreateFails ==
    /\ portPc = "idle"
    /\ CallsLeft
    /\ portOutcomes' = Append(portOutcomes, PortRaise("socket", 0))
    /\ UNCHANGED <<sockets, portPc>>

(* sock.bind(('', 0)): the system picks the port *)
Bind ==
    \E p \in Ports :
        /\ portPc = "created"
        /\ \A i \in 1..Len(sockets) :
              sockets[i].state = "bound" => sockets[i].port # p
        /\ sockets' = [sockets EXCEPT ![Len(sockets)].state = "bound",
                                      ![Len(sockets)].port = p]
        /\ portPc' = "bound"
        /\ UNCHANGED portOutcomes

(* bind raising with the socket left open. *)
BindFailsLeaks ==
    /\ portPc = "created"
    /\ portOutcomes' = Append(portOutcomes, PortRaise("bind", Len(sockets)))
    /\ portPc' = "idle"
    /\ UNCHANGED sockets

BindFails ==
    /\ portPc = "created"
    /\ sockets' = CloseSocket(sockets, Len(sockets))
    /\ portOutcomes' = Append(portOutcomes, PortRaise("bind", Len(sockets)))
    /\ portPc' = "idle"

(* sock.setsockopt(SOL_SOCKET, SO_REUSEADDR, 1) *)
SetSockOpt ==
    /\ portPc = "bound"
    /\ sockets' = [sockets EXCEPT ![Len(sockets)].reuse = TRUE]
    /\ portPc' = "optset"
    /\ UNCHANGED portOutcomes

SetSockOptFails ==
    /\ portPc = "bound"
    /\ sockets' = CloseSocket(sockets, Len(sockets))
    /\ portOutcomes' = Append(portOutcomes, PortRaise("setsockopt", Len(sockets)))
    /\ portPc' = "idle"

(* return sock.getsockname()[1] *)
GetSockName ==
    /\ portPc = "optset"
    /\ sockets' = CloseSocket(sockets, Len(sockets))
    /\ portOutcomes' = Append(portOutcomes,
                              PortReturn(sockets[Len(sockets)].port, Len(sockets)))
    /\ portPc' = "idle"

GetSockNameFails ==
    /\ portPc = "optset"
    /\ sockets' = CloseSocket(sockets, Len(sockets))
    /\ portOutcomes' = Append(portOutcomes, PortRaise("getsockname", Len(sockets)))
    /\ portPc' = "idle"

----------------------------------------------------------------------------
(* The span calculator as a state machine: the arguments are chosen, then  *)
(* the call runs to its outcome.                                           *)

SpanInit ==
    /\ shape \in Shapes
    /\ stridesGiven \in BOOLEAN
    /\ strides \in (IF stridesGiven THEN StridesFor(shape) \cup {<<>>} ELSE {<<>>})
    /\ itemsize \in ItemSizes
    /\ spanResult = SpanNone

SpanIdle ==
    /\ shape = <<>>
    /\ strides = <<>>
    /\ stridesGiven = FALSE
    /\ itemsize = 1
    /\ spanResult = SpanNone

CallSpan ==
    /\ spanResult.kind = "none"
    /\ spanResult' = get_contiguous_span(shape, stridesGiven, strides, itemsize)
    /\ UNCHANGED <<shape, strides, stridesGiven, itemsize>>

----------------------------------------------------------------------------
(* One specification per helper: the helpers share no state, and each      *)
(* specification leaves the other helpers' variables at rest.              *)

SpanNext == CallSpan /\ UNCHANGED <<pathVars, depVars, portVars>>

InitSpan == SpanInit /\ PathIdle /\ DepIdle /\ PortInit

SpecSpan == InitSpan /\ [][SpanNext]_vars

PathNext ==
    \/ CallIsPathLike /\ UNCHANGED <<spanVars, depVars, portVars>>
    \/ CallStringifyPath /\ UNCHANGED <<spanVars, depVars, portVars>>

InitPath == PathInit /\ SpanIdle /\ DepIdle /\ PortInit

SpecPath == InitPath /\ [][PathNext]_vars

DepNext ==
    \/ DeprecateApi /\ UNCHANGED <<spanVars, pathVars, portVars>>
    \/ WrapperWarn /\ UNCHANGED <<spanVars, pathVars, portVars>>
    \/ WrapperWarnRaises /\ UNCHANGED <<spanVars, pathVars, portVars>>
    \/ WrapperCall /\ UNCHANGED <<spanVars, pathVars, portVars>>

InitDep == DepInit /\ SpanIdle /\ PathIdle /\ PortInit

SpecDeprecate == InitDep /\ [][DepNext]_vars

PortNext ==
    \/ SocketCreate /\ UNCHANGED <<spanVars, pathVars, depVars>>
    \/ SocketCreateFails /\ UNCHANGED <<spanVars, pathVars, depVars>>
    \/ Bind /\ UNCHANGED <<spanVars, pathVars, depVars>>
    \/ BindFails /\ UNCHANGED <<spanVars, pathVars, depVars>>
    \/ SetSockOpt /\ UNCHANGED <<spanVars, pathVars, depVars>>
    \/ SetSockOptFails /\ UNCHANGED <<spanVars, pathVars, depVars>>
    \/ GetSockName /\ UNCHANGED <<spanVars, pathVars, depVars>>
    \/ GetSockNameFails /\ UNCHANGED <<spanVars, pathVars, depVars>>

InitPort == PortInit /\ SpanIdle /\ PathIdle /\ DepIdle

SpecPort == InitPort /\ [][PortNext]_vars

----------------------------------------------------------------------------
(* What the span claims speak about: the elements of the array, their      *)
(* byte offsets and byte slots, computed by enumeration of index tuples.   *)

AllDimsPositive(shp) == \A i \in 1..Len(shp) : shp[i] >= 1

HasZeroDim(shp) == \E i \in 1..Len(shp) : shp[i] = 0

(* The index tuples of the first n dimensions. *)
RECURSIVE IndicesUpTo(_, _)
IndicesUpTo(shp, n) ==
    IF n = 0 THEN {<<>>}
    ELSE {Append(idx, k) : idx \in IndicesUpTo(shp, n - 1), k \in 0..(shp[n] - 1)}

Indices(shp) == IndicesUpTo(shp, Len(shp))

NumElements(shp) == Cardinality(Indices(shp))

RECURSIVE DotFrom(_, _, _)
DotFrom(idx, strd, i) ==
    IF i > Len(idx) THEN 0 ELSE idx[i] * strd[i] + DotFrom(idx, strd, i + 1)

Offset(idx, strd) == DotFrom(idx, strd, 1)

Offsets(shp, strd) == {Offset(idx, strd) : idx \in Indices(shp)}

Least(S) == CHOOSE o \in S : \A p \in S : o <= p

Greatest(S) == CHOOSE o \in S : \A p \in S : o >= p

MinOffset(shp, strd) == LET offs == Offsets(shp, strd) IN Least(offs)

MaxOffset(shp, strd) == LET offs == Offsets(shp, strd) IN Greatest(offs)

Slot(o, isz) == o..(o + isz - 1)

(* No two distinct elements share a byte. *)
SlotsDisjoint(shp, strd, isz) ==
    LET idxs == Indices(shp)
    IN  \A a, b \in idxs :
            a # b => Slot(Offset(a, strd), isz) \cap Slot(Offset(b, strd), isz) = {}

(* The slots exactly tile [lo, hi): every slot lies inside, every byte of  *)
(* the interval belongs to some slot, and no two slots overlap.            *)
Tiles(shp, strd, isz, lo, hi) ==
    LET offs == Offsets(shp, strd)
    IN  /\ \A o \in offs : lo <= o /\ o + isz <= hi
        /\ \A byte \in lo..(hi - 1) : \E o \in offs : byte \in Slot(o, isz)
        /\ SlotsDisjoint(shp, strd, isz)

(* Sum over the dimensions whose stride has the given sign of              *)
(* stride * (dim - 1).                                                     *)
RECURSIVE ReachFrom(_, _, _, _)
ReachFrom(shp, strd, sign, i) ==
    IF i > Len(shp) THEN 0
    ELSE (IF strd[i] * sign > 0 THEN strd[i] * (shp[i] - 1) ELSE 0)
         + ReachFrom(shp, strd, sign, i + 1)

SpanCalled == spanResult.kind # "none"

SameLength == Len(strides) = Len(shape)

----------------------------------------------------------------------------
(* C1: whenever get_contiguous_span returns for non-empty strides and a    *)
(* shape with every dimension >= 1, the element slots exactly tile         *)
(* [start, end): no two slots overlap and every byte of the span belongs   *)
(* to a slot.                                                              *)
C1_ReturnedSpanIsTiled ==
    (/\ spanResult.kind = "return"
     /\ StridesTruthy(stridesGiven, strides)
     /\ AllDimsPositive(shape))
    => Tiles(shape, strides, itemsize, spanResult.start, spanResult.end)

(* C2: on return, with all dimensions >= 1 and strides of the shape's      *)
(* length, start is the least element offset and end is the greatest       *)
(* element offset plus itemsize; positive strides only raise end by        *)
(* stride*(dim-1), negative strides only lower start, zero strides move    *)
(* neither.                                                                *)
C2_MinimalBoundingInterval ==
    (/\ spanResult.kind = "return"
     /\ AllDimsPositive(shape)
     /\ SameLength)
    => /\ spanResult.start = MinOffset(shape, strides)
       /\ spanResult.end = MaxOffset(shape, strides) + itemsize
       /\ spanResult.start = ReachFrom(shape, strides, 0 - 1, 1)
       /\ spanResult.end = itemsize + ReachFrom(shape, strides, 1, 1)

C2_Witness ==
    /\ shape = <<3>>
    /\ strides = <<0 - 4>>
    /\ itemsize = 4
    /\ spanResult = SpanReturn(0 - 8, 4)

(* C3: for non-empty strides and no zero dimension, the call raises        *)
(* ValueError exactly when the accumulated span width differs from         *)
(* itemsize * number of elements, and a returned span has exactly that     *)
(* width.                                                                  *)
AccumulatedWidth ==
    itemsize + ReachFrom(shape, strides, 1, 1) - ReachFrom(shape, strides, 0 - 1, 1)

C3_NonContiguousRaises ==
    (/\ SpanCalled
     /\ StridesTruthy(stridesGiven, strides)
     /\ AllDimsPositive(shape))
    => /\ (spanResult.kind = "ValueError")
            <=> (AccumulatedWidth # itemsize * NumElements(shape))
       /\ (spanResult.kind = "return")
            <=> (AccumulatedWidth = itemsize * NumElements(shape))
       /\ spanResult.kind = "return"
            => spanResult.end - spanResult.start = itemsize * NumElements(shape)

C3_Witness ==
    /\ shape = <<2, 2>>
    /\ strides = <<4, 1>>
    /\ itemsize = 1
    /\ spanResult.kind = "ValueError"

(* C4: a shape with a zero dimension anywhere yields exactly (0, 0) and    *)
(* never ValueError, whatever the strides.                                 *)
C4_ZeroDimGivesEmptySpan ==
    (SpanCalled /\ HasZeroDim(shape)) => spanResult = SpanReturn(0, 0)

C4_Witness ==
    /\ shape = <<3, 0>>
    /\ strides = <<4, 3>>
    /\ spanResult = SpanReturn(0, 0)

(* C5: with strides absent or empty the call never raises and returns      *)
(* start = 0, end = itemsize * number of elements (the empty shape has one *)
(* element).                                                               *)
C5_NoStridesIsPacked ==
    (SpanCalled /\ ~StridesTruthy(stridesGiven, strides))
    => spanResult = SpanReturn(0, itemsize * NumElements(shape))

C5_Witness ==
    /\ shape = <<>>
    /\ ~stridesGiven
    /\ itemsize = 3
    /\ spanResult = SpanReturn(0, 3)

(* C10: every layout whose slots are pairwise disjoint and cover one       *)
(* interval of itemsize * number of elements bytes is accepted, and that   *)
(* interval is returned.                                                   *)
TrulyContiguous(shp, strd, isz) ==
    LET lo == MinOffset(shp, strd)
    IN  Tiles(shp, strd, isz, lo, lo + isz * NumElements(shp))

C10_ContiguousAccepted ==
    (/\ SpanCalled
     /\ AllDimsPositive(shape)
     /\ SameLength
     /\ TrulyContiguous(shape, strides, itemsize))
    => LET lo == MinOffset(shape, strides)
       IN  spanResult = SpanReturn(lo, lo + itemsize * NumElements(shape))

C10_Witness ==
    /\ shape = <<2, 3>>
    /\ strides = <<0 - 3, 1>>
    /\ itemsize = 1
    /\ spanResult = SpanReturn(0 - 3, 3)

----------------------------------------------------------------------------
(* C6: _is_path_like is true iff the value is a str, exposes __fspath__ or *)
(* is a pathlib.Path; _stringify_path returns a string for exactly the     *)
(* values on which _is_path_like is true and raises TypeError for exactly  *)
(* the others.                                                             *)
C6_TypeErrorIffNotPathLike ==
    (isLike # "none" /\ strResult.kind # "none")
    => /\ (isLike = "True")
            <=> (pathValue.isStr \/ HasFspath(pathValue) \/ pathValue.isPath)
       /\ (isLike = "True") <=> (strResult.kind = "return")
       /\ (isLike = "False") <=> (strResult.kind = "TypeError")

(* C7: a str is returned as itself without consulting __fspath__; a       *)
(* non-str value whose __fspath__() renders a result gets exactly that     *)
(* result back; str(path) is used only when __fspath__ is missing.         *)
C7_CoercionPrecedence ==
    (strResult.kind # "none")
    => /\ pathValue.isStr
            => strResult = StrReturn(pathValue.text, "self")
       /\ (~pathValue.isStr /\ pathValue.fspath = "returns")
            => strResult = StrReturn(pathValue.rendered, "fspath")
       /\ strResult.via = "str"
            => (~HasFspath(pathValue) /\ pathValue.isPath)

----------------------------------------------------------------------------
(* The events of invocation k, in order. *)
EventsOf(k) == SelectSeq(events, LAMBDA e : e.inv = k)

WarnsOf(k) == SelectSeq(events, LAMBDA e : e.inv = k /\ e.type = "warn")

CallsOf(k) == SelectSeq(events, LAMBDA e : e.inv = k /\ e.type = "call")

Warned == IF depPc = "warned" THEN 1 ELSE 0

(* C8 as stated: creating a wrapper emits no warning and calls no target;  *)
(* every finished wrapper invocation has emitted exactly one warning, then *)
(* called the target exactly once with its own arguments, and handed back  *)
(* the target's outcome unchanged.                                         *)
C8_WarnThenForward ==
    /\ \A i \in 1..Len(events) : events[i].inv \in 1..Len(invoked)
    /\ \A k \in 1..Len(outcomes) :
          /\ EventsOf(k) =
               <<WarnEvent(invoked[k].w.msg, "shown", k),
                 CallEvent(invoked[k].w.api, invoked[k].args, k)>>
          /\ outcomes[k] = TargetResult(invoked[k].w.api, invoked[k].args)

(* C8 as amended: creating a wrapper calls neither warnings.warn nor the   *)
(* target; every invocation calls warnings.warn exactly once, first, with  *)
(* the formatted message and FutureWarning; the warnings filter decides    *)
(* whether that shows a warning, shows nothing or raises.  When it         *)
(* returns, the target call follows, exactly once, with the invocation's   *)
(* arguments, and its outcome is handed back unchanged; when it raises,    *)
(* the target is not called and the FutureWarning is the outcome.          *)
C8_WarnCalledThenForward ==
    /\ Len(invoked) = Len(outcomes) + Warned
    /\ \A i \in 1..Len(events) : events[i].inv \in 1..Len(invoked)
    /\ \A k \in 1..Len(invoked) :
          /\ Len(WarnsOf(k)) = 1
          /\ WarnsOf(k)[1].msg = invoked[k].w.msg
          /\ WarnsOf(k)[1].category = "FutureWarning"
          /\ EventsOf(k)[1].type = "warn"
          /\ warnFilter = "always" => WarnsOf(k)[1].effect = "shown"
          /\ warnFilter = "ignore" => WarnsOf(k)[1].effect = "suppressed"
          /\ warnFilter = "error" => WarnsOf(k)[1].effect = "raised"
          /\ (warnFilter = "default" /\ WarnsOf(k)[1].effect = "suppressed")
               => \E j \in 1..(k - 1) : /\ invoked[j].w.msg = invoked[k].w.msg
                                        /\ WarnsOf(j)[1].effect = "shown"
    /\ \A k \in 1..Len(outcomes) :
          IF WarnsOf(k)[1].effect = "raised"
          THEN /\ CallsOf(k) = <<>>
               /\ outcomes[k] = WarningRaised
          ELSE /\ EventsOf(k) =
                    <<WarnsOf(k)[1],
                      CallEvent(invoked[k].w.api, invoked[k].args, k)>>
               /\ outcomes[k] = TargetResult(invoked[k].w.api, invoked[k].args)
    /\ depPc = "warned" => (CallsOf(Len(invoked)) = <<>> /\ ENABLED WrapperCall)

(* The same wrapper invoked twice under the default filter: the first      *)
(* invocation shows the warning, the second shows nothing, both reach the  *)
(* target.                                                                 *)
C8_Witness ==
    /\ warnFilter = "default"
    /\ depPc = "idle"
    /\ Len(outcomes) = 2
    /\ invoked[1].w = invoked[2].w
    /\ outcomes[1] = [kind |-> "return", value |-> 3]
    /\ events[1].effect = "shown"
    /\ events[2].type = "call"
    /\ events[3].effect = "suppressed"
    /\ events[4].type = "call"

(* C9: whenever no find_free_port call is running, every socket ever       *)
(* created is closed; at most the running call's socket is open; each call *)
(* that got a socket got one of its own, a returned port is the one its    *)
(* own socket was bound to, and a socket that never got bound ends as an   *)
(* OSError from bind reaching the caller.                                  *)
C9_SocketAlwaysClosed ==
    /\ portPc = "idle" => \A i \in 1..Len(sockets) : sockets[i].state = "closed"
    /\ \A i \in 1..Len(sockets) :
          sockets[i].state # "closed" => i = Len(sockets)
    /\ \A j, k \in 1..Len(portOutcomes) :
          (j # k /\ portOutcomes[j].sock # 0)
            => portOutcomes[j].sock # portOutcomes[k].sock
    /\ \A k \in 1..Len(portOutcomes) :
          LET o == portOutcomes[k]
          IN  /\ o.kind = "return"
                   => /\ o.sock \in 1..Len(sockets)
                      /\ o.port \in Ports
                      /\ o.port = sockets[o.sock].port
                      /\ sockets[o.sock].reuse
              /\ (o.sock # 0 /\ sockets[o.sock].port = 0)
                   => (o.kind = "OSError" /\ o.at = "bind")
    /\ Len(sockets) =
         Cardinality({k \in 1..Len(portOutcomes) : portOutcomes[k].sock # 0})
           + (IF portPc = "idle" THEN 0 ELSE 1)

C9_Witness ==
    /\ portPc = "idle"
    /\ Len(portOutcomes) = 3
    /\ portOutcomes[1].kind = "return"
    /\ portOutcomes[2].at = "bind"
    /\ portOutcomes[3].kind = "return"
    /\ Len(sockets) = 3

====
